---- MODULE Spec2Model ----
(***************************************************************************)
(* Wi-Fi / mobile download session simulator.                              *)
(*                                                                         *)
(* The repository holds three near-duplicate programs:                     *)
(*   "part_001"       src/unnamed/part_001  (clamping GenerateBand,        *)
(*                    MeasureBandwidth, fixed session time)                *)
(*   "part_000"       src/unnamed/part_000  (GenerateBand without clamp,   *)
(*                    totalb accumulated in main)                          *)
(*   "second_method"  src/with_2.4g/second_method.go (GenerateBand without *)
(*                    clamp, fixed file size, no batch statistics)         *)
(*                                                                         *)
(* Durations are float64 seconds in the code; here they are naturals in an *)
(* abstract time unit, and payloads are integers in (Mbps x time unit), so *)
(* float64 rounding is not part of the model. Every draw of the random     *)
(* source is a nondeterministic choice.                                    *)
(***************************************************************************)
EXTENDS Integers, Sequences, FiniteSets, TLC

\* ---------------------------------------------------------------- bounds
\* GenerateBand on its own: session times 0..MaxTs, raw draws 0..MaxDraw.
MaxTs == 3
MaxDraw == 3
\* At most MaxZeroDraws raw draws of one GenerateBand call are exactly 0.
MaxZeroDraws == 1
\* The batch: session times 0..MaxBatchTs, raw draws 0..MaxBatchDraw, MaxPayload
\* payload sizes, the first of them MinPayload time units of the mobile speed,
\* Iterations iterations.
MaxBatchTs == 1
MaxBatchDraw == 1
MaxPayload == 1
MinPayload == 2
Iterations == 2
\* SimulateDownload on its own: at most MaxSimLen intervals, durations and
\* speeds 0..MaxSpeed, payloads -1..MaxSimPayload.
MaxSimLen == 3
MaxSpeed == 2
MaxSimPayload == 3

Variants == {"part_000", "part_001", "second_method"}

VARIABLES
  variant,          \* which of the three programs runs
  pc,               \* position in main
  i,                \* loop counter of main
  Ts,               \* session time of the current iteration
  totalFileSizeMb,  \* payload of the current iteration
  initialState,     \* GenerateBand's parameter
  currentState,     \* GenerateBand's local
  states,           \* the []State under construction / returned
  lastDraw,         \* the last value InverseCDFExponential returned (0 before any)
  minDraw,          \* the least raw dwell drawn in this call (NoDraw before any)
  remainingSize,    \* the package-level variable
  wifiSpeed,
  mobileSpeed,
  log,              \* DownloadFile's output lines of the current SimulateDownload call
  status,           \* the final status line of the current iteration
  AvgRemainFailure, \* main's accumulator (numerator once divided)
  avgDivisor,       \* 1 until main divides AvgRemainFailure, then the divisor
  deadline,         \* main's miss counter
  deadlineRatio,    \* <<numerator, denominator>> once printed
  printed,          \* whether the summary block was printed
  totalb,           \* part_000: main's bandwidth accumulator
  results,          \* part_001: the flags of the iterations so far
  ratio,            \* part_001: <<sum of the flags, len(results)>> once printed
  runs              \* what each finished iteration sampled and reported

vars == <<variant, pc, i, Ts, totalFileSizeMb, initialState, currentState, states,
          lastDraw, minDraw, remainingSize, wifiSpeed, mobileSpeed, log, status,
          AvgRemainFailure, avgDivisor, deadline, deadlineRatio, printed, totalb,
          results, ratio, runs>>

genVars == <<initialState, currentState, states, lastDraw, minDraw>>
batchVars == <<AvgRemainFailure, avgDivisor, deadline, deadlineRatio, printed,
               results, ratio, runs>>

\* ------------------------------------------------------------- helpers

RECURSIVE SumOfTinState(_)
SumOfTinState(s) ==
  IF s = <<>> THEN 0 ELSE s[1].T + SumOfTinState(Tail(s))

\* NextState without the flip.
NextStateSame(state) == state

NextState(state) ==
  IF state = "disconnect" THEN "connect" ELSE "disconnect"

\* The values InverseCDFExponential(rand.Float64(), mean) can return, cut at
\* `most`: -mean * ln(1 - u) with u in [0, 1) is any finite value >= 0, and 0
\* at u = 0.
InverseCDFExponential(most) == 0..most

\* minDraw before the first draw of a call: above every draw.
NoDraw == MaxDraw + MaxBatchDraw + 1

\* InitState returns either label (u <= p0 or not, 0 < p0 < 1).
InitState == {"disconnect", "connect"}

Min(a, b) == IF a < b THEN a ELSE b

\* -------------------------------------------------------- GenerateBand

\* BandPassClamped with the exit test written > instead of >=.
BandPassClampedGt(cur, sts, ts, t) ==
  LET kind == IF cur = "disconnect" THEN "Disconnect" ELSE "Connect"
      tc == IF t > ts THEN ts ELSE t
  IN  IF SumOfTinState(sts) + tc > ts
      THEN LET remaining == ts - SumOfTinState(sts)
           IN  [states |-> IF remaining > 0
                           THEN Append(sts, [state |-> kind, T |-> remaining])
                           ELSE sts,
                brk |-> TRUE]
      ELSE [states |-> Append(sts, [state |-> kind, T |-> tc]), brk |-> FALSE]

\* One pass of the for loop of part_001's GenerateBand with raw draw t.
\* brk: whether the pass ends in break.
BandPassClamped(cur, sts, ts, t) ==
  LET kind == IF cur = "disconnect" THEN "Disconnect" ELSE "Connect"
      tc == IF t > ts THEN ts ELSE t
  IN  IF SumOfTinState(sts) + tc >= ts
      THEN LET remaining == ts - SumOfTinState(sts)
           IN  [states |-> IF remaining > 0
                           THEN Append(sts, [state |-> kind, T |-> remaining])
                           ELSE sts,
                brk |-> TRUE]
      ELSE [states |-> Append(sts, [state |-> kind, T |-> tc]), brk |-> FALSE]

\* One pass of the for loop of part_000's and second_method.go's GenerateBand.
BandPassUnclamped(cur, sts, ts, t) ==
  IF cur = "disconnect"
  THEN LET app == Append(sts, [state |-> "Disconnect", T |-> t])
       IN  [states |-> app, brk |-> SumOfTinState(app) >= ts]
  ELSE IF SumOfTinState(sts) + t >= ts
       THEN [states |-> Append(sts, [state |-> "Connect",
                                     T |-> ts - SumOfTinState(sts)]),
             brk |-> TRUE]
       ELSE [states |-> Append(sts, [state |-> "Connect", T |-> t]), brk |-> FALSE]

BandPass(v, cur, sts, ts, t) ==
  IF v = "part_001" THEN BandPassClamped(cur, sts, ts, t)
  ELSE BandPassUnclamped(cur, sts, ts, t)

\* Where main goes when GenerateBand returns.
AfterGen(v) == IF v = "part_001" THEN "measure" ELSE "simulate"

\* The zero-duration intervals of a sequence under construction: each comes
\* from a raw draw of exactly 0 (u = 0).
ZeroDraws(sts) == Cardinality({k \in 1..Len(sts) : sts[k].T = 0})

\* One pass of GenerateBand's loop, the raw draw at most `most`. A draw of
\* exactly 0 leaves the accumulated duration where it was, so a call may see
\* any number of them; the model allows MaxZeroDraws per call.
GenerateBandPass(most) ==
  /\ pc = "generate"
  /\ \E t \in InverseCDFExponential(most) :
       /\ t = 0 => ZeroDraws(states) < MaxZeroDraws
       /\ LET r == BandPass(variant, currentState, states, Ts, t)
          IN  /\ states' = r.states
              /\ lastDraw' = t
              /\ minDraw' = Min(minDraw, t)
              /\ currentState' = IF r.brk THEN currentState
                                 ELSE NextState(currentState)
              /\ pc' = IF r.brk THEN AfterGen(variant) ELSE "generate"
  /\ UNCHANGED <<variant, i, Ts, totalFileSizeMb, initialState, remainingSize,
                 wifiSpeed, mobileSpeed, log, status, totalb>>
  /\ UNCHANGED batchVars

\* GenerateBand called on its own, and called by main in the batch.
GenStep == GenerateBandPass(MaxDraw)
BatchGenStep == GenerateBandPass(MaxBatchDraw)

\* ------------------------------------------------------------ main: sampling

\* The speeds main passes to SimulateDownload.
WifiSpeed(v) == IF v = "part_001" THEN 60 ELSE 200
MobileSpeed(v) == IF v = "part_001" THEN 40 ELSE 50

\* Ts of one iteration: part_001 uses the fixed expectedValueSession (here the
\* longest session of the model), part_000 an exponential draw (any value >= 0),
\* second_method.go rand.Float64() * expectedValueSession (0 included).
SessionTimes(v) == IF v = "part_001" THEN {MaxBatchTs} ELSE 0..MaxBatchTs

\* totalFileSizeMb of one iteration: Pareto(alpha, xm) * 8 is any value at or
\* above 8 * xm > 0; second_method.go uses the fixed fileSizeMB * 8.
Payloads(v) ==
  IF v = "second_method" THEN {MinPayload * MobileSpeed(v) * MaxPayload}
  ELSE {MinPayload * MobileSpeed(v) * k : k \in 1..MaxPayload}

\* The head of main's loop body: Ts, the file size, remainingSize, InitState,
\* and the entry into GenerateBand.
Sample ==
  /\ pc = "sample"
  /\ i <= Iterations
  /\ Ts' \in SessionTimes(variant)
  /\ totalFileSizeMb' \in Payloads(variant)
  /\ remainingSize' = totalFileSizeMb'
  /\ initialState' \in InitState
  /\ currentState' = initialState'
  /\ states' = <<>>
  /\ lastDraw' = 0
  /\ minDraw' = NoDraw
  /\ log' = <<>>
  /\ status' = "none"
  /\ pc' = "generate"
  /\ UNCHANGED <<variant, i, wifiSpeed, mobileSpeed, totalb>>
  /\ UNCHANGED batchVars

\* ------------------------------------------------------- MeasureBandwidth

RECURSIVE TotalBandwidth(_, _, _)
TotalBandwidth(s, w, m) ==
  IF s = <<>> THEN 0
  ELSE (IF s[1].state = "Connect" THEN w + m
        ELSE IF s[1].state = "Disconnect" THEN m ELSE 0)
       + TotalBandwidth(Tail(s), w, m)

\* totalb / len(states) > 40, cross-multiplied; for the empty sequence the
\* code's 0/0 is NaN, which compares false.
MeasureBandwidth(s, w, m) ==
  IF TotalBandwidth(s, w, m) > 40 * Len(s) THEN 1 ELSE 0

\* part_001: flag := MeasureBandwidth(...); results = append(results, flag).
Measure ==
  /\ pc = "measure"
  /\ results' = Append(results, MeasureBandwidth(states, wifiSpeed, mobileSpeed))
  /\ pc' = "simulate"
  /\ UNCHANGED <<variant, i, Ts, totalFileSizeMb, remainingSize, wifiSpeed,
                 mobileSpeed, log, status, totalb, AvgRemainFailure, avgDivisor,
                 deadline, deadlineRatio, printed, ratio, runs>>
  /\ UNCHANGED genVars

\* ------------------------------------------------------- SimulateDownload

\* EffectiveSpeed with the mobile speed left out of a Connect interval.
EffectiveSpeedWifiOnly(kind, w, m) == IF kind = "Connect" THEN w ELSE m

\* The speed SimulateDownload hands to DownloadFile for one interval.
EffectiveSpeed(kind, w, m) == IF kind = "Connect" THEN w + m ELSE m

\* DownloadFile: remainingSize -= speed * value.
DownloadFile(rem, value, speed) == rem - (speed * value)

\* SimulateDownload without its early return.
DownloadCompleteNever(rem) == FALSE

\* The test after each interval: if remainingSize <= 0 { return }.
DownloadComplete(rem) == rem <= 0

\* Where main goes when SimulateDownload returns.
AfterSim(v) == IF v = "part_000" THEN "count" ELSE "final"

\* One pass of the range loop of SimulateDownload; with no interval left to
\* range over (the empty sequence) the call returns at once.
SimStep ==
  /\ pc = "simulate"
  /\ IF Len(log) >= Len(states)
     THEN /\ pc' = AfterSim(variant)
          /\ UNCHANGED <<remainingSize, log>>
     ELSE LET k == Len(log) + 1
              speed == EffectiveSpeed(states[k].state, wifiSpeed, mobileSpeed)
              rem == DownloadFile(remainingSize, states[k].T, speed)
          IN  /\ remainingSize' = rem
              /\ log' = Append(log, [index |-> k, state |-> states[k].state,
                                     T |-> states[k].T, speed |-> speed,
                                     remaining |-> rem])
              /\ pc' = IF DownloadComplete(rem) \/ k = Len(states)
                       THEN AfterSim(variant) ELSE "simulate"
  /\ UNCHANGED <<variant, i, Ts, totalFileSizeMb, wifiSpeed, mobileSpeed, status,
                 totalb>>
  /\ UNCHANGED genVars
  /\ UNCHANGED batchVars

\* ------------------------------------------------ main: after the simulation

\* part_000: the "count of state" loop, which adds every interval's speed to
\* the totalb declared before main's loop.
Count ==
  /\ pc = "count"
  /\ totalb' = totalb + TotalBandwidth(states, wifiSpeed, mobileSpeed)
  /\ pc' = "final"
  /\ UNCHANGED <<variant, i, Ts, totalFileSizeMb, remainingSize, wifiSpeed,
                 mobileSpeed, log, status>>
  /\ UNCHANGED genVars
  /\ UNCHANGED batchVars

\* The final status test taken by every run.
MissedAlways(rem) == TRUE

\* The final status test written >= instead of >.
MissedNonNegative(rem) == rem >= 0

\* main's test of the final status: if remainingSize > 0.
Missed(rem) == rem > 0

\* Whether the program keeps AvgRemainFailure and deadline at all.
Accumulates(v) == v # "second_method"

\* The "Final status" block, and the loop's i++ and test.
FinalStatus ==
  /\ pc = "final"
  /\ status' = IF Missed(remainingSize) THEN "Incomplete" ELSE "Complete"
  /\ IF Missed(remainingSize) /\ Accumulates(variant)
     THEN /\ AvgRemainFailure' = AvgRemainFailure + remainingSize
          /\ deadline' = deadline + 1
     ELSE UNCHANGED <<AvgRemainFailure, deadline>>
  /\ runs' = Append(runs, [Ts |-> Ts, payload |-> totalFileSizeMb,
                           states |-> states, remaining |-> remainingSize,
                           status |-> status',
                           totalb |-> totalb,
                           flag |-> IF variant = "part_001"
                                    THEN results[Len(results)] ELSE 0])
  /\ i' = i + 1
  /\ pc' = IF i + 1 <= Iterations THEN "sample"
           ELSE IF Accumulates(variant) THEN "summary" ELSE "done"
  /\ UNCHANGED <<variant, Ts, totalFileSizeMb, remainingSize, wifiSpeed,
                 mobileSpeed, log, totalb, avgDivisor, deadlineRatio, printed,
                 results, ratio>>
  /\ UNCHANGED genVars

\* The division by the miss counter instead of iterations.
AvgDivisorMisses(iters, misses) == misses

\* What main divides AvgRemainFailure by: float64(iterations).
AvgDivisor(iters, misses) == iters

RECURSIVE SumOfFlags(_)
SumOfFlags(r) == IF r = <<>> THEN 0 ELSE r[1] + SumOfFlags(Tail(r))

\* The block after the loop: if AvgRemainFailure > 0 { divide, print }; in
\* part_001 then the ratio of the bandwidth flags.
Summary ==
  /\ pc = "summary"
  /\ IF AvgRemainFailure > 0
     THEN /\ avgDivisor' = AvgDivisor(Iterations, deadline)
          /\ deadlineRatio' = <<deadline, Iterations>>
          /\ printed' = TRUE
     ELSE UNCHANGED <<avgDivisor, deadlineRatio, printed>>
  /\ ratio' = IF variant = "part_001" THEN <<SumOfFlags(results), Len(results)>>
              ELSE ratio
  /\ pc' = "done"
  /\ UNCHANGED <<variant, i, Ts, totalFileSizeMb, remainingSize, wifiSpeed,
                 mobileSpeed, log, status, totalb, AvgRemainFailure, deadline,
                 results, runs>>
  /\ UNCHANGED genVars

\* ------------------------------------------------------- the whole program

Init ==
  /\ variant \in Variants
  /\ pc = "sample"
  /\ i = 1
  /\ Ts = 0
  /\ totalFileSizeMb = 0
  /\ initialState = "connect"
  /\ currentState = "connect"
  /\ states = <<>>
  /\ lastDraw = 0
  /\ minDraw = NoDraw
  /\ remainingSize = 0
  /\ wifiSpeed = WifiSpeed(variant)
  /\ mobileSpeed = MobileSpeed(variant)
  /\ log = <<>>
  /\ status = "none"
  /\ AvgRemainFailure = 0
  /\ avgDivisor = 1
  /\ deadline = 0
  /\ deadlineRatio = <<0, 1>>
  /\ printed = FALSE
  /\ totalb = 0
  /\ results = <<>>
  /\ ratio = <<0, 1>>
  /\ runs = <<>>

Next ==
  \/ Sample
  \/ BatchGenStep
  \/ Measure
  \/ SimStep
  \/ Count
  \/ FinalStatus
  \/ Summary

Spec == Init /\ [][Next]_vars

\* ---------------------------------------------- SimulateDownload on its own

Kinds == {"Connect", "Disconnect"}

\* Every sequence of at most MaxSimLen intervals with durations 0..MaxSpeed.
SimSequences ==
  UNION {[1..n -> [state : Kinds, T : 0..MaxSpeed]] : n \in 0..MaxSimLen}

\* SimulateDownload and DownloadFile are the same text in the three files; the
\* caller here is part_001's main in its last iteration. The payload, the
\* speeds and the sequence are the call's inputs.
InitSim ==
  /\ variant = "part_001"
  /\ pc = "simulate"
  /\ i = Iterations
  /\ Ts = 0
  /\ totalFileSizeMb \in (-1)..MaxSimPayload
  /\ initialState = "connect"
  /\ currentState = "connect"
  /\ states \in SimSequences
  /\ lastDraw = 0
  /\ minDraw = NoDraw
  /\ remainingSize = totalFileSizeMb
  /\ wifiSpeed \in 0..MaxSpeed
  /\ mobileSpeed \in 0..MaxSpeed
  /\ log = <<>>
  /\ status = "none"
  /\ AvgRemainFailure = 0
  /\ avgDivisor = 1
  /\ deadline = 0
  /\ deadlineRatio = <<0, 1>>
  /\ printed = FALSE
  /\ totalb = 0
  /\ results = <<MeasureBandwidth(states, wifiSpeed, mobileSpeed)>>
  /\ ratio = <<0, 1>>
  /\ runs = <<>>

NextSim == SimStep \/ FinalStatus

SpecSim == InitSim /\ [][NextSim]_vars

\* ------------------------------------------- GenerateBand on its own

\* The call's inputs: the variant's GenerateBand, initialState and Ts.
InitGen ==
  /\ variant \in Variants
  /\ pc = "generate"
  /\ i = 1
  /\ Ts \in 0..MaxTs
  /\ totalFileSizeMb = 0
  /\ initialState \in InitState
  /\ currentState = initialState
  /\ states = <<>>
  /\ lastDraw = 0
  /\ minDraw = NoDraw
  /\ remainingSize = 0
  /\ wifiSpeed = 0
  /\ mobileSpeed = 0
  /\ log = <<>>
  /\ status = "none"
  /\ AvgRemainFailure = 0
  /\ avgDivisor = 1
  /\ deadline = 0
  /\ deadlineRatio = <<0, 1>>
  /\ printed = FALSE
  /\ totalb = 0
  /\ results = <<>>
  /\ ratio = <<0, 1>>
  /\ runs = <<>>

NextGen == GenStep

SpecGen == InitGen /\ [][NextGen]_vars /\ WF_vars(NextGen)

\* ======================================================= GenerateBand claims

GenReturned == pc \in {"measure", "simulate", "count", "final"}

Kind(label) == IF label = "disconnect" THEN "Disconnect" ELSE "Connect"

CeilDiv(a, b) == (a + b - 1) \div b

\* C1: for Ts > 0 and strictly positive raw draws, the durations of the
\* sequence GenerateBand returns sum to exactly Ts, in every variant.
C1_SumEqualsTs ==
  (GenReturned /\ Ts > 0 /\ minDraw > 0) => SumOfTinState(states) = Ts

\* C2: the first interval has the kind of initialState and consecutive
\* intervals differ in kind, the final interval included.
C2_Alternates ==
  /\ Len(states) >= 1 => states[1].state = Kind(initialState)
  /\ \A k \in 1..(Len(states) - 1) : states[k].state # states[k + 1].state

\* C2's case: a returned sequence of three or more intervals whose last
\* interval was truncated below the raw draw.
C2_Witness ==
  /\ GenReturned
  /\ variant = "part_001"
  /\ Len(states) >= 3
  /\ states[Len(states)].T < lastDraw

\* C8: GenerateBand with Ts = 0 returns the empty sequence, in every variant.
C8_EmptyAtZero ==
  (GenReturned /\ Ts = 0) => states = <<>>

\* C9: with every raw draw at least d > 0 the loop appends at most
\* ceil(Ts/d) + 1 intervals, ...
C9_Bound ==
  minDraw >= 1 => Len(states) <= CeilDiv(Ts, minDraw) + 1

\* ... every pass that does not end the loop strictly increases the
\* accumulated duration, ...
C9_Progress ==
  [][(pc = "generate" /\ pc' = "generate" /\ lastDraw' > 0)
       => SumOfTinState(states') > SumOfTinState(states)]_vars

\* ... and the loop reaches its break.
C9_Terminates ==
  (pc = "generate") ~> (pc # "generate" \/ minDraw = 0)

\* C9: GenerateBand terminates within ceil(Ts/d) + 1 intervals when the raw
\* draws are bounded below by d > 0, its accumulated duration growing on every
\* pass that does not break.
C9_TerminatesWithinBound == []C9_Bound /\ C9_Progress /\ C9_Terminates

\* C9's case: a call that returned after two or more intervals, all draws
\* at least d, with as many intervals as ceil(Ts/d).
C9_Witness ==
  /\ GenReturned
  /\ minDraw >= 1
  /\ minDraw <= MaxDraw
  /\ Len(states) >= 2
  /\ Len(states) = CeilDiv(Ts, minDraw)

\* =================================================== SimulateDownload claims

SimReturned == pc \in {"count", "final", "summary", "done"}

\* What the k-th interval must take off remainingSize.
Downloaded(k) ==
  IF states[k].state = "Connect"
  THEN (wifiSpeed + mobileSpeed) * states[k].T
  ELSE mobileSpeed * states[k].T

RECURSIVE DownloadedUpTo(_)
DownloadedUpTo(n) == IF n = 0 THEN 0 ELSE Downloaded(n) + DownloadedUpTo(n - 1)

\* C3: intervals are processed in order, each once, and none after the first
\* one that leaves remainingSize <= 0; if none does, all are processed; after
\* the return remainingSize is what the last processed interval left.
C3_StopsAtFirstComplete ==
  LET n == Len(log)
  IN  /\ n <= Len(states)
      /\ \A k \in 1..n : /\ log[k].index = k
                         /\ log[k].state = states[k].state
                         /\ log[k].T = states[k].T
      /\ \A k \in 1..(n - 1) : log[k].remaining > 0
      /\ SimReturned =>
           /\ (\A k \in 1..n : log[k].remaining > 0) => n = Len(states)
           /\ remainingSize = IF n = 0 THEN totalFileSizeMb ELSE log[n].remaining

\* C3's case: the call returned after two or more intervals, the last of
\* which completed the download, leaving later intervals unprocessed.
C3_Witness ==
  /\ SimReturned
  /\ Len(log) >= 2
  /\ Len(log) < Len(states)
  /\ log[Len(log)].remaining <= 0
  /\ states[Len(log) + 1].T > 0

\* C4: every processed interval takes exactly (wifiSpeed + mobileSpeed) * T
\* (Connect) or mobileSpeed * T (otherwise) off remainingSize, remainingSize
\* never grows, and it ends at the payload minus the sum over the processed
\* prefix.
C4_DecrementExact ==
  /\ \A k \in 1..Len(log) :
       LET before == IF k = 1 THEN totalFileSizeMb ELSE log[k - 1].remaining
       IN  /\ log[k].remaining = before - Downloaded(k)
           /\ log[k].remaining <= before
  /\ remainingSize = totalFileSizeMb - DownloadedUpTo(Len(log))

\* C4's case: a finished call that processed a Connect and a Disconnect
\* interval, each taking something off remainingSize.
C4_Witness ==
  /\ SimReturned
  /\ wifiSpeed > 0
  /\ \E a, b \in 1..Len(log) :
       /\ log[a].state = "Connect"
       /\ log[b].state = "Disconnect"
       /\ Downloaded(a) > Downloaded(b)
       /\ Downloaded(b) > 0

PayloadSpent == totalFileSizeMb <= 0 /\ Len(states) > 0

MissedRuns == {k \in 1..Len(runs) : runs[k].remaining > 0}

RECURSIVE ShortfallUpTo(_)
ShortfallUpTo(n) ==
  IF n = 0 THEN 0
  ELSE (IF runs[n].remaining > 0 THEN runs[n].remaining ELSE 0)
       + ShortfallUpTo(n - 1)

BatchDone == pc = "done" /\ Accumulates(variant)

\* C6 as claimed: once the loop is over the reported average shortfall
\* (AvgRemainFailure / avgDivisor) is the shortfall sum of the missed runs over
\* their number, the reported miss ratio is that number over N, and the report
\* is skipped only when no run missed.
C6_AverageOverMisses ==
  BatchDone =>
    LET mc == Cardinality(MissedRuns)
    IN  /\ Len(runs) = Iterations
        /\ printed <=> mc > 0
        /\ printed =>
             /\ AvgRemainFailure * mc = ShortfallUpTo(Len(runs)) * avgDivisor
             /\ deadlineRatio[1] * Iterations = mc * deadlineRatio[2]

\* C6 as amended: the reported average is the shortfall sum of the missed
\* runs over the number of iterations N; the miss ratio is the number of
\* missed runs over N; both are skipped exactly when no run missed.
C6_AverageOverIterations ==
  BatchDone =>
    LET mc == Cardinality(MissedRuns)
    IN  /\ Len(runs) = Iterations
        /\ printed <=> mc > 0
        /\ printed =>
             /\ AvgRemainFailure * Iterations
                  = ShortfallUpTo(Len(runs)) * avgDivisor
             /\ deadlineRatio[1] * Iterations = mc * deadlineRatio[2]

\* C6's case: a finished batch of part_001 in which some run missed and some
\* run did not.
C6_Witness ==
  /\ BatchDone
  /\ variant = "part_001"
  /\ printed
  /\ Cardinality(MissedRuns) >= 1
  /\ Cardinality(MissedRuns) < Len(runs)

\* C7: two iterations that sampled the same Ts, payload and interval
\* sequence report the same remaining payload, status, bandwidth total and
\* bandwidth flag, whatever ran before them.
C7_IterationsIndependent ==
  \A a, b \in 1..Len(runs) :
    (/\ runs[a].Ts = runs[b].Ts
     /\ runs[a].payload = runs[b].payload
     /\ runs[a].states = runs[b].states)
    => /\ runs[a].remaining = runs[b].remaining
       /\ runs[a].status = runs[b].status
       /\ runs[a].totalb = runs[b].totalb
       /\ runs[a].flag = runs[b].flag

\* C10: AvgRemainFailure is never negative and is positive exactly when
\* deadline >= 1; deadline counts the missed runs and nothing else, so
\* 0 <= deadline <= iterations; the summary block is printed exactly when
\* some run missed.
C10_AccumulatorInvariant ==
  /\ AvgRemainFailure >= 0
  /\ AvgRemainFailure > 0 <=> deadline >= 1
  /\ 0 <= deadline /\ deadline <= Iterations
  /\ Accumulates(variant) =>
       /\ deadline = Cardinality(MissedRuns)
       /\ AvgRemainFailure = ShortfallUpTo(Len(runs))
  /\ BatchDone => (printed <=> deadline >= 1)

\* C10's case: a finished batch of part_000 with a missed run and a completed
\* run that overshot the payload (negative remainingSize).
C10_Witness ==
  /\ BatchDone
  /\ variant = "part_000"
  /\ printed
  /\ deadline >= 1
  /\ \E k \in 1..Len(runs) : runs[k].remaining < 0

====
